---- MODULE Spec2Model ----
(***************************************************************************)
(* Model of linkedin_network_scraper.py: the headline parser, the scroll   *)
(* convergence loop, the card extractor and the orchestration in main().   *)
(*                                                                         *)
(* A Python str is a sequence of one-character strings.  None is the       *)
(* one-element sequence <<"None">>, which no str can equal because every   *)
(* element of a str is a single character.                                 *)
(***************************************************************************)
EXTENDS Integers, Sequences, FiniteSets, TLC

\* ------------------------------------------------------------------ bounds
MaxLen == 8        \* longest headline handed to parse_employer in SpecParse
MaxRounds == 6     \* most scroll rounds explored in load_all_connections
MaxCards == 3      \* most cards returned by query_selector_all

\* --------------------------------------------------------------- strings
None == <<"None">>

\* the characters the headlines of SpecParse are built from: whitespace, the
\* separator "@", and two letters that spell the separator "aT" together
\* and are ordinary text apart
Chars == {" ", "a", "T", "@"}

\* str.isspace / regex \s, on Chars
IsSpace(c) == c = " "

\* re.IGNORECASE folds case before comparing letters
Lower(c) == IF c = "A" THEN "a" ELSE IF c = "T" THEN "t" ELSE c

RECURSIVE LStrip(_)
LStrip(s) == IF s = <<>> THEN s
             ELSE IF IsSpace(Head(s)) THEN LStrip(Tail(s)) ELSE s

RECURSIVE RStrip(_)
RStrip(s) == IF s = <<>> THEN s
             ELSE IF IsSpace(s[Len(s)]) THEN RStrip(SubSeq(s, 1, Len(s) - 1)) ELSE s

\* str.strip()
Strip(s) == RStrip(LStrip(s))

\* length of the run of whitespace that starts at index i (greedy \s+)
RECURSIVE WsRun(_, _)
WsRun(s, i) == IF i > Len(s) \/ i < 1 THEN 0
               ELSE IF IsSpace(s[i]) THEN 1 + WsRun(s, i + 1) ELSE 0

\* one alternative \s+<word>\s+ of EMPLOYER_SPLIT_RE tried at index i:
\* the index just past the match, 0 when it does not match.  \s+ is greedy
\* and backtracks, so the longest leading run that lets the rest match wins.
AltEnd(s, i, word) ==
    LET n == Len(word)
        Fits(k) == /\ i + k + n - 1 <= Len(s)
                   /\ \A j \in 1..n : Lower(s[i + k + j - 1]) = Lower(word[j])
                   /\ WsRun(s, i + k + n) >= 1
        ks == {k \in 1..WsRun(s, i) : Fits(k)}
    IN IF ks = {} THEN 0
       ELSE LET k == CHOOSE x \in ks : \A y \in ks : y <= x
            IN i + k + n + WsRun(s, i + k + n)

\* EMPLOYER_SPLIT_RE = \s+at\s+|\s+@\s+ tried at index i, left alternative first
MatchEnd(s, i) ==
    IF AltEnd(s, i, <<"a", "t">>) # 0 THEN AltEnd(s, i, <<"a", "t">>)
    ELSE AltEnd(s, i, <<"@">>)

\* leftmost match at or after index i: <<start, end>>, <<0, 0>> when none
RECURSIVE Search(_, _)
Search(s, i) == IF i > Len(s) THEN <<0, 0>>
                ELSE IF MatchEnd(s, i) # 0 THEN <<i, MatchEnd(s, i)>>
                ELSE Search(s, i + 1)

\* the last match at or after index i (what rsplit-like splitting would use)
RECURSIVE SearchLast(_, _)
SearchLast(s, i) ==
    LET m == Search(s, i)
    IN IF m[1] = 0 THEN m
       ELSE LET later == SearchLast(s, m[2])
            IN IF later[1] = 0 THEN m ELSE later

\* SplitOnce that splits at the last separator instead of the first
SplitOnce_Last(s) ==
    LET m == SearchLast(s, 1)
    IN IF m[1] = 0 THEN <<s>>
       ELSE <<SubSeq(s, 1, m[1] - 1), SubSeq(s, m[2], Len(s))>>

\* EMPLOYER_SPLIT_RE.split(headline, maxsplit=1)
SplitOnce(s) ==
    LET m == Search(s, 1)
    IN IF m[1] = 0 THEN <<s>>
       ELSE <<SubSeq(s, 1, m[1] - 1), SubSeq(s, m[2], Len(s))>>

\* parse_employer with "return employer" in place of "return employer or None"
parse_employer_NoOrNone(headline) ==
    IF headline = None \/ headline = <<>> THEN None
    ELSE LET parts == SplitOnce(headline)
         IN IF Len(parts) = 2 THEN Strip(parts[2]) ELSE None

parse_employer(headline) ==
    IF headline = None \/ headline = <<>> THEN None
    ELSE LET parts == SplitOnce(headline)
         IN IF Len(parts) = 2
            THEN LET employer == Strip(parts[2])
                 IN IF employer = <<>> THEN None ELSE employer
            ELSE None

\* all strs over Chars of length at most n
RECURSIVE StrsUpTo(_)
StrsUpTo(n) == IF n = 0 THEN {<<>>}
               ELSE LET shorter == StrsUpTo(n - 1)
                    IN shorter \cup {Append(s, c) : s \in {t \in shorter : Len(t) = n - 1}, c \in Chars}

\* =================================================== the run of main()
\* what document.body.scrollHeight can report
Extents == {0, 100, 250}

\* inner_text() of a card's name node and of its occupation node; None when
\* query_selector finds no such node
NameNodes == {None, <<" ">>, <<"x">>, <<" ", "y">>}
HeadlineNodes == {None, <<>>, <<"x", " ", "@", " ", "z", " ">>}

Cards == [name : NameNodes, headline : HeadlineNodes]

RECURSIVE SeqsUpTo(_, _)
SeqsUpTo(S, n) == IF n = 0 THEN {<<>>}
                  ELSE LET shorter == SeqsUpTo(S, n - 1)
                       IN shorter \cup {Append(q, e) : q \in {t \in shorter : Len(t) = n - 1}, e \in S}

\* LINKEDIN_USERNAME / LINKEDIN_PASSWORD as os.getenv returns them
EnvValues == {None, <<>>, <<"u">>}

\* the output file before the run: missing, or left by an earlier run
NoFile == [exists |-> FALSE, data |-> <<>>, complete |-> FALSE, mtime |-> 0]
OldFile == [exists |-> TRUE, data |-> <<>>, complete |-> TRUE, mtime |-> 0]

VARIABLES pc,            \* position in main()
          username, password,
          playwright,    \* "none", "running", "stopped"
          browser,       \* "none", "open", "closed"
          context,       \* "none", "open", "closed"
          last_height, stable_rounds,   \* locals of load_all_connections
          rounds,        \* loop bodies entered by the current call
          reads,         \* extents read by the current call, in order
          cards,         \* what query_selector_all returned
          connections,   \* result of scrape_connections
          payload,       \* the list save_connections serialises
          file,          \* the file at args.output
          exc,           \* exception in flight: "none", "Timeout", "Error", "ValueError"
          raised_at,     \* the call that raised it
          handler,       \* except clause that ran: "none", "Timeout", "Unexpected"
          ret,           \* "none", "0", "1", "raised"
          ops,           \* driver operations of the current load_all_connections call
          started,       \* steps of the with block that were begun, in order
          completed,     \* steps of the with block that returned, in order
          p_pc, p_headline, p_result    \* a lone call of parse_employer

vars == <<pc, username, password, playwright, browser, context, last_height,
          stable_rounds, rounds, reads, cards, connections, payload, file,
          exc, raised_at, handler, ret, ops, started, completed,
          p_pc, p_headline, p_result>>

pvars == <<p_pc, p_headline, p_result>>
session == <<playwright, browser, context>>
locals == <<last_height, stable_rounds, rounds, reads, ops>>
hist == <<started, completed>>
data == <<cards, connections, payload, file>>
env == <<username, password>>

Init == /\ pc = "start"
        /\ username \in EnvValues
        /\ password \in EnvValues
        /\ playwright = "none"
        /\ browser = "none"
        /\ context = "none"
        /\ last_height = 0
        /\ stable_rounds = 0
        /\ rounds = 0
        /\ reads = <<>>
        /\ cards = <<>>
        /\ connections = <<>>
        /\ payload = <<>>
        /\ file \in {NoFile, OldFile}
        /\ exc = "none"
        /\ raised_at = "none"
        /\ handler = "none"
        /\ ret = "none"
        /\ ops = <<>>
        /\ started = <<>>
        /\ completed = <<>>
        /\ p_pc = "idle"
        /\ p_headline = None
        /\ p_result = None

\* an exception leaves the with block: every frame below main is unwound,
\* and the step that raised it does not complete
Raise(kind, at) == /\ exc' = kind
                   /\ raised_at' = at
                   /\ pc' = "with_exit"
                   /\ last_height' = 0
                   /\ stable_rounds' = 0
                   /\ rounds' = 0
                   /\ reads' = <<>>
                   /\ ops' = <<>>
                   /\ UNCHANGED completed

\* "not x" for an Optional[str]
Falsy(x) == x = None \/ x = <<>>

\* ensure_credentials with "and" in place of "or" in its test
ensure_credentials_And ==
    /\ pc = "start"
    /\ IF Falsy(username) /\ Falsy(password)
       THEN /\ exc' = "ValueError"
            /\ raised_at' = "ensure_credentials"
            /\ ret' = "raised"
            /\ pc' = "exited"
       ELSE /\ pc' = "launch"
            /\ UNCHANGED <<exc, raised_at, ret>>
    /\ UNCHANGED pvars
    /\ UNCHANGED <<env, session, locals, data, handler>>
    /\ UNCHANGED hist

ensure_credentials ==
    /\ pc = "start"
    /\ IF Falsy(username) \/ Falsy(password)
       THEN /\ exc' = "ValueError"
            /\ raised_at' = "ensure_credentials"
            /\ ret' = "raised"
            /\ pc' = "exited"
       ELSE /\ pc' = "launch"
            /\ UNCHANGED <<exc, raised_at, ret>>
    /\ UNCHANGED pvars
    /\ UNCHANGED <<env, session, locals, data, handler>>
    /\ UNCHANGED hist

\* with sync_playwright(): launch, new_context, new_page
Launch ==
    /\ pc = "launch"
    /\ playwright' = "running"
    /\ \/ /\ browser' = "open"
          /\ context' = "open"
          /\ pc' = "login"
          /\ UNCHANGED <<exc, raised_at, locals, completed>>
       \/ /\ Raise("Error", "launch")
          /\ UNCHANGED <<browser, context>>
       \/ /\ browser' = "open"
          /\ Raise("Error", "new_context")
          /\ UNCHANGED context
    /\ UNCHANGED pvars
    /\ UNCHANGED <<env, data, handler, ret>>
    /\ UNCHANGED started

\* goto, fill, click, then wait_for_url with its 60 s bound; goto has the
\* driver's own navigation timeout
login ==
    /\ pc = "login"
    /\ \/ /\ pc' = "open_connections_page"
          /\ completed' = Append(completed, "login")
          /\ UNCHANGED <<exc, raised_at, locals>>
       \/ Raise("Timeout", "wait_for_url")
       \/ Raise("Timeout", "goto")
       \/ Raise("Error", "login")
    /\ UNCHANGED pvars
    /\ UNCHANGED <<env, session, data, handler, ret>>
    /\ started' = Append(started, "login")

\* open_connections_page that answers a timeout by logging in again
open_connections_page_Retry ==
    /\ pc = "open_connections_page"
    /\ \/ /\ pc' = "load_all_connections"
          /\ completed' = Append(completed, "open_connections_page")
          /\ UNCHANGED <<exc, raised_at, locals>>
       \/ /\ pc' = "login"
          /\ UNCHANGED <<exc, raised_at, locals, completed>>
       \/ Raise("Error", "open_connections_page")
    /\ UNCHANGED pvars
    /\ UNCHANGED <<env, session, data, handler, ret>>
    /\ started' = Append(started, "open_connections_page")

\* goto, then wait_for_selector with its 60 s bound
open_connections_page ==
    /\ pc = "open_connections_page"
    /\ \/ /\ pc' = "load_all_connections"
          /\ completed' = Append(completed, "open_connections_page")
          /\ UNCHANGED <<exc, raised_at, locals>>
       \/ Raise("Timeout", "wait_for_selector")
       \/ Raise("Timeout", "goto")
       \/ Raise("Error", "open_connections_page")
    /\ UNCHANGED pvars
    /\ UNCHANGED <<env, session, data, handler, ret>>
    /\ started' = Append(started, "open_connections_page")

\* ------------------------------------------------ load_all_connections
\* LoadEnter with last_height initialised to a value no extent equals
LoadEnter_InitNoExtent ==
    /\ pc = "load_all_connections"
    /\ last_height' = -1
    /\ stable_rounds' = 0
    /\ rounds' = 0
    /\ reads' = <<>>
    /\ ops' = <<>>
    /\ pc' = "while"
    /\ UNCHANGED pvars
    /\ UNCHANGED <<env, session, data, exc, raised_at, handler, ret>>
    /\ started' = Append(started, "load_all_connections")
    /\ UNCHANGED completed

LoadEnter ==
    /\ pc = "load_all_connections"
    /\ last_height' = 0
    /\ stable_rounds' = 0
    /\ rounds' = 0
    /\ reads' = <<>>
    /\ ops' = <<>>
    /\ pc' = "while"
    /\ UNCHANGED pvars
    /\ UNCHANGED <<env, session, data, exc, raised_at, handler, ret>>
    /\ started' = Append(started, "load_all_connections")
    /\ UNCHANGED completed

\* WhileTest with the test written "stable_rounds <= 3"
WhileTest_OffByOne ==
    /\ pc = "while"
    /\ IF stable_rounds <= 3
       THEN /\ rounds < MaxRounds
            /\ pc' = "scroll"
       ELSE pc' = "load_return"
    /\ UNCHANGED pvars
    /\ UNCHANGED <<env, session, locals, data, exc, raised_at, handler, ret>>
    /\ UNCHANGED hist

\* WhileTest with an iteration ceiling: "stable_rounds < 3 and rounds < 4"
WhileTest_Ceiling ==
    /\ pc = "while"
    /\ IF stable_rounds < 3 /\ rounds < 4
       THEN /\ rounds < MaxRounds
            /\ pc' = "scroll"
       ELSE pc' = "load_return"
    /\ UNCHANGED pvars
    /\ UNCHANGED <<env, session, locals, data, exc, raised_at, handler, ret>>
    /\ UNCHANGED hist

\* while stable_rounds < 3
WhileTest ==
    /\ pc = "while"
    /\ IF stable_rounds < 3
       THEN /\ rounds < MaxRounds
            /\ pc' = "scroll"
       ELSE pc' = "load_return"
    /\ UNCHANGED pvars
    /\ UNCHANGED <<env, session, locals, data, exc, raised_at, handler, ret>>
    /\ UNCHANGED hist

\* Scroll followed at once by the extent read, the settle pause left out
Scroll_NoPause ==
    /\ pc = "scroll"
    /\ \/ /\ rounds' = rounds + 1
          /\ pc' = "read"
          /\ ops' = Append(ops, "scroll")
          /\ UNCHANGED <<last_height, stable_rounds, reads, exc, raised_at, completed>>
       \/ Raise("Error", "evaluate")
    /\ UNCHANGED pvars
    /\ UNCHANGED <<env, session, data, handler, ret>>
    /\ UNCHANGED started

\* page.evaluate("window.scrollTo(0, document.body.scrollHeight)")
Scroll ==
    /\ pc = "scroll"
    /\ \/ /\ rounds' = rounds + 1
          /\ pc' = "pause"
          /\ ops' = Append(ops, "scroll")
          /\ UNCHANGED <<last_height, stable_rounds, reads, exc, raised_at, completed>>
       \/ Raise("Error", "evaluate")
    /\ UNCHANGED pvars
    /\ UNCHANGED <<env, session, data, handler, ret>>
    /\ UNCHANGED started

\* page.wait_for_timeout(1500)
Pause ==
    /\ pc = "pause"
    /\ pc' = "read"
    /\ UNCHANGED pvars
    /\ ops' = Append(ops, "pause")
    /\ UNCHANGED <<last_height, stable_rounds, rounds, reads>>
    /\ UNCHANGED <<env, session, data, exc, raised_at, handler, ret>>
    /\ UNCHANGED hist

\* ReadExtent whose else branch forgets "stable_rounds = 0"
ReadExtent_NoReset ==
    /\ pc = "read"
    /\ \/ \E current_height \in Extents :
            /\ reads' = Append(reads, current_height)
            /\ IF current_height = last_height
               THEN /\ stable_rounds' = stable_rounds + 1
                    /\ UNCHANGED last_height
               ELSE /\ UNCHANGED stable_rounds
                    /\ last_height' = current_height
            /\ pc' = "while"
            /\ ops' = Append(ops, "read")
            /\ UNCHANGED <<rounds, exc, raised_at, completed>>
       \/ Raise("Error", "evaluate")
    /\ UNCHANGED pvars
    /\ UNCHANGED <<env, session, data, handler, ret>>
    /\ UNCHANGED started

\* ReadExtent whose else branch forgets "last_height = current_height"
ReadExtent_NoLastUpdate ==
    /\ pc = "read"
    /\ \/ \E current_height \in Extents :
            /\ reads' = Append(reads, current_height)
            /\ IF current_height = last_height
               THEN /\ stable_rounds' = stable_rounds + 1
                    /\ UNCHANGED last_height
               ELSE /\ stable_rounds' = 0
                    /\ UNCHANGED last_height
            /\ pc' = "while"
            /\ ops' = Append(ops, "read")
            /\ UNCHANGED <<rounds, exc, raised_at, completed>>
       \/ Raise("Error", "evaluate")
    /\ UNCHANGED pvars
    /\ UNCHANGED <<env, session, data, handler, ret>>
    /\ UNCHANGED started

\* ReadExtent whose then branch forgets "stable_rounds += 1"
ReadExtent_NoIncrement ==
    /\ pc = "read"
    /\ \/ \E current_height \in Extents :
            /\ reads' = Append(reads, current_height)
            /\ IF current_height = last_height
               THEN UNCHANGED <<stable_rounds, last_height>>
               ELSE /\ stable_rounds' = 0
                    /\ last_height' = current_height
            /\ pc' = "while"
            /\ ops' = Append(ops, "read")
            /\ UNCHANGED <<rounds, exc, raised_at, completed>>
       \/ Raise("Error", "evaluate")
    /\ UNCHANGED pvars
    /\ UNCHANGED <<env, session, data, handler, ret>>
    /\ UNCHANGED started

\* current_height = page.evaluate(...); the comparison with last_height
ReadExtent ==
    /\ pc = "read"
    /\ \/ \E current_height \in Extents :
            /\ reads' = Append(reads, current_height)
            /\ IF current_height = last_height
               THEN /\ stable_rounds' = stable_rounds + 1
                    /\ UNCHANGED last_height
               ELSE /\ stable_rounds' = 0
                    /\ last_height' = current_height
            /\ pc' = "while"
            /\ ops' = Append(ops, "read")
            /\ UNCHANGED <<rounds, exc, raised_at, completed>>
       \/ Raise("Error", "evaluate")
    /\ UNCHANGED pvars
    /\ UNCHANGED <<env, session, data, handler, ret>>
    /\ UNCHANGED started

\* the loop is left and the call returns: its locals are gone
LoadReturn ==
    /\ pc = "load_return"
    /\ last_height' = 0
    /\ stable_rounds' = 0
    /\ rounds' = 0
    /\ reads' = <<>>
    /\ ops' = <<>>
    /\ pc' = "scrape_connections"
    /\ UNCHANGED pvars
    /\ UNCHANGED <<env, session, data, exc, raised_at, handler, ret>>
    /\ completed' = Append(completed, "load_all_connections")
    /\ UNCHANGED started

\* --------------------------------------------------- scrape_connections
Connection(name, headline, employer) ==
    [name |-> name, headline |-> headline, employer |-> employer]

\* ScrapeCards without the "if not name_text: continue"
RECURSIVE ScrapeCards_NoSkip(_)
ScrapeCards_NoSkip(cs) ==
    IF cs = <<>> THEN <<>>
    ELSE LET card == Head(cs)
             name_text == IF card.name # None THEN Strip(card.name) ELSE <<>>
             headline_text == IF card.headline # None THEN Strip(card.headline) ELSE <<>>
         IN <<Connection(name_text, headline_text, parse_employer(headline_text))>>
            \o ScrapeCards_NoSkip(Tail(cs))

\* ScrapeCards with connections.insert(0, ...) in place of append
RECURSIVE ScrapeCards_Prepend(_)
ScrapeCards_Prepend(cs) ==
    IF cs = <<>> THEN <<>>
    ELSE LET card == Head(cs)
             name_text == IF card.name # None THEN Strip(card.name) ELSE <<>>
             headline_text == IF card.headline # None THEN Strip(card.headline) ELSE <<>>
         IN IF name_text = <<>>
            THEN ScrapeCards_Prepend(Tail(cs))
            ELSE ScrapeCards_Prepend(Tail(cs))
                 \o <<Connection(name_text, headline_text, parse_employer(headline_text))>>

\* ScrapeCards that leaves the headline None when the card has no
\* occupation node
RECURSIVE ScrapeCards_NullHeadline(_)
ScrapeCards_NullHeadline(cs) ==
    IF cs = <<>> THEN <<>>
    ELSE LET card == Head(cs)
             name_text == IF card.name # None THEN Strip(card.name) ELSE <<>>
             headline_text == IF card.headline # None THEN Strip(card.headline) ELSE None
         IN IF name_text = <<>>
            THEN ScrapeCards_NullHeadline(Tail(cs))
            ELSE <<Connection(name_text, headline_text, parse_employer(headline_text))>>
                 \o ScrapeCards_NullHeadline(Tail(cs))

\* the for loop over the cards
RECURSIVE ScrapeCards(_)
ScrapeCards(cs) ==
    IF cs = <<>> THEN <<>>
    ELSE LET card == Head(cs)
             name_text == IF card.name # None THEN Strip(card.name) ELSE <<>>
             headline_text == IF card.headline # None THEN Strip(card.headline) ELSE <<>>
         IN IF name_text = <<>>
            THEN ScrapeCards(Tail(cs))
            ELSE <<Connection(name_text, headline_text, parse_employer(headline_text))>>
                 \o ScrapeCards(Tail(cs))

scrape_connections ==
    /\ pc = "scrape_connections"
    /\ \/ \E cs \in SeqsUpTo(Cards, MaxCards) :
            /\ cards' = cs
            /\ connections' = ScrapeCards(cs)
            /\ pc' = "save_connections"
            /\ completed' = Append(completed, "scrape_connections")
          /\ UNCHANGED <<exc, raised_at, locals>>
       \/ /\ Raise("Error", "query_selector_all")
          /\ UNCHANGED <<cards, connections>>
    /\ UNCHANGED pvars
    /\ UNCHANGED <<env, session, payload, file, handler, ret>>
    /\ started' = Append(started, "scrape_connections")

\* ----------------------------------------------------- save_connections
\* open(output_path, "w") creates or truncates the file before json.dump
\* writes into it
save_connections ==
    /\ pc = "save_connections"
    /\ payload' = connections
    /\ \/ /\ file' = [exists |-> TRUE, data |-> connections, complete |-> TRUE,
                      mtime |-> file.mtime + 1]
          /\ pc' = "context_close"
          /\ completed' = Append(completed, "save_connections")
          /\ UNCHANGED <<exc, raised_at, locals>>
       \/ /\ Raise("Error", "open")
          /\ UNCHANGED file
       \/ \E n \in 0..Len(connections) :
            /\ file' = [exists |-> TRUE, data |-> SubSeq(connections, 1, n),
                        complete |-> FALSE, mtime |-> file.mtime + 1]
            /\ Raise("Error", "json.dump")
    /\ UNCHANGED pvars
    /\ UNCHANGED <<env, session, cards, connections, handler, ret>>
    /\ started' = Append(started, "save_connections")

\* context.close()
ContextClose ==
    /\ pc = "context_close"
    /\ \/ /\ context' = "closed"
          /\ pc' = "browser_close"
          /\ completed' = Append(completed, "context.close")
          /\ UNCHANGED <<exc, raised_at, locals>>
       \/ /\ Raise("Error", "context.close")
          /\ UNCHANGED context
    /\ UNCHANGED pvars
    /\ UNCHANGED <<env, playwright, browser, data, handler, ret>>
    /\ started' = Append(started, "context.close")

\* browser.close()
BrowserClose ==
    /\ pc = "browser_close"
    /\ \/ /\ browser' = "closed"
          /\ pc' = "with_exit"
          /\ completed' = Append(completed, "browser.close")
          /\ UNCHANGED <<exc, raised_at, locals>>
       \/ /\ Raise("Error", "browser.close")
          /\ UNCHANGED browser
    /\ UNCHANGED pvars
    /\ UNCHANGED <<env, playwright, context, data, handler, ret>>
    /\ started' = Append(started, "browser.close")

\* WithExit as it would be without the with statement around the session:
\* nothing is released when an exception passes through
WithExit_NoTeardown ==
    /\ pc = "with_exit"
    /\ playwright' = "stopped"
    /\ UNCHANGED <<browser, context>>
    /\ pc' = IF exc = "none" THEN "return" ELSE "except"
    /\ UNCHANGED pvars
    /\ UNCHANGED <<env, locals, data, exc, raised_at, handler, ret>>
    /\ UNCHANGED hist

\* the with statement is left, normally or by an exception: __exit__ of
\* sync_playwright() stops Playwright, which ends every browser and context
\* it still has open
WithExit ==
    /\ pc = "with_exit"
    /\ playwright' = "stopped"
    /\ browser' = IF browser = "open" THEN "closed" ELSE browser
    /\ context' = IF context = "open" THEN "closed" ELSE context
    /\ pc' = IF exc = "none" THEN "return" ELSE "except"
    /\ UNCHANGED pvars
    /\ UNCHANGED <<env, locals, data, exc, raised_at, handler, ret>>
    /\ UNCHANGED hist

\* Except with "except Exception" written first, so that it also catches
\* the timeouts
Except_GenericFirst ==
    /\ pc = "except"
    /\ handler' = "Unexpected"
    /\ ret' = "1"
    /\ pc' = "exited"
    /\ UNCHANGED pvars
    /\ UNCHANGED <<env, session, locals, data, exc, raised_at>>
    /\ UNCHANGED hist

\* Except whose clauses lack "return 1", so that main goes on to "return 0"
Except_NoReturn ==
    /\ pc = "except"
    /\ handler' = IF exc = "Timeout" THEN "Timeout" ELSE "Unexpected"
    /\ ret' = "0"
    /\ pc' = "exited"
    /\ UNCHANGED pvars
    /\ UNCHANGED <<env, session, locals, data, exc, raised_at>>
    /\ UNCHANGED hist

\* except PlaywrightTimeoutError / except Exception
Except ==
    /\ pc = "except"
    /\ handler' = IF exc = "Timeout" THEN "Timeout" ELSE "Unexpected"
    /\ ret' = "1"
    /\ pc' = "exited"
    /\ UNCHANGED pvars
    /\ UNCHANGED <<env, session, locals, data, exc, raised_at>>
    /\ UNCHANGED hist

\* return 0
Return0 ==
    /\ pc = "return"
    /\ ret' = "0"
    /\ pc' = "exited"
    /\ UNCHANGED pvars
    /\ UNCHANGED <<env, session, locals, data, exc, raised_at, handler>>
    /\ UNCHANGED hist

Next == \/ ensure_credentials
        \/ Launch
        \/ login
        \/ open_connections_page
        \/ LoadEnter
        \/ WhileTest
        \/ Scroll
        \/ Pause
        \/ ReadExtent
        \/ LoadReturn
        \/ scrape_connections
        \/ save_connections
        \/ ContextClose
        \/ BrowserClose
        \/ WithExit
        \/ Except
        \/ Return0

Spec == Init /\ [][Next]_vars

\* ------------------------------------------- load_all_connections, alone
\* main has logged in and opened the connections page and now makes the call
LoadInit == /\ pc = "load_all_connections"
            /\ username = <<"u">>
            /\ password = <<"u">>
            /\ playwright = "running"
            /\ browser = "open"
            /\ context = "open"
            /\ last_height = 0
            /\ stable_rounds = 0
            /\ rounds = 0
            /\ reads = <<>>
            /\ cards = <<>>
            /\ connections = <<>>
            /\ payload = <<>>
            /\ file \in {NoFile, OldFile}
            /\ exc = "none"
            /\ raised_at = "none"
            /\ handler = "none"
            /\ ret = "none"
            /\ ops = <<>>
            /\ started = <<"login", "open_connections_page">>
            /\ completed = <<"login", "open_connections_page">>
            /\ p_pc = "idle"
            /\ p_headline = None
            /\ p_result = None

LoadNext == \/ LoadEnter
            \/ WhileTest
            \/ Scroll
            \/ Pause
            \/ ReadExtent
            \/ LoadReturn

\* the call is one thread of control: whatever step is enabled is taken
SpecLoad == LoadInit /\ [][LoadNext]_vars /\ WF_vars(LoadNext)

\* ------------------------------------------------- parse_employer, alone
ParseInit == /\ p_pc = "call"
             /\ p_headline \in StrsUpTo(MaxLen) \cup {None}
             /\ p_result = None
             /\ pc = "idle"
             /\ username = None
             /\ password = None
             /\ playwright = "none"
             /\ browser = "none"
             /\ context = "none"
             /\ last_height = 0
             /\ stable_rounds = 0
             /\ rounds = 0
             /\ reads = <<>>
             /\ cards = <<>>
             /\ connections = <<>>
             /\ payload = <<>>
             /\ file = NoFile
             /\ exc = "none"
             /\ raised_at = "none"
             /\ handler = "none"
             /\ ret = "none"
             /\ ops = <<>>
             /\ started = <<>>
             /\ completed = <<>>

ParseEmployer == /\ p_pc = "call"
                 /\ p_result' = parse_employer(p_headline)
                 /\ p_pc' = "done"
                 /\ UNCHANGED p_headline
                 /\ UNCHANGED <<pc, env, session, locals, hist, data, exc, raised_at, handler, ret>>

ParseNext == ParseEmployer

SpecParse == ParseInit /\ [][ParseNext]_vars

\* =============================================================== claims

\* ------------------------------------------- what a separator is, stated
\* directly on the text: a word "at" (any letter case) or "@" with a
\* whitespace character right before it (at index p) and right after it
IsWord(s, p, word) ==
    /\ p + Len(word) + 1 <= Len(s)
    /\ IsSpace(s[p])
    /\ \A j \in 1..Len(word) : Lower(s[p + j]) = Lower(word[j])
    /\ IsSpace(s[p + Len(word) + 1])

SepLen(s, p) == IF IsWord(s, p, <<"a", "t">>) THEN 2
                ELSE IF IsWord(s, p, <<"@">>) THEN 1 ELSE 0

SepPositions(s) == {p \in 1..Len(s) : SepLen(s, p) > 0}

\* the text that follows the separator at p (from its closing whitespace on)
TextAfter(s, p) == SubSeq(s, p + SepLen(s, p) + 1, Len(s))

FirstSep(s) == CHOOSE p \in SepPositions(s) : \A q \in SepPositions(s) : p <= q

\* C6: employer is present exactly when the headline contains a
\* whitespace-delimited separator "at" (any case) or "@" and the text after
\* the first separator is non-empty after trimming; an empty headline, one
\* without separator and one with nothing after it give None.
C6_EmployerPresentIff ==
    p_pc = "done" =>
        LET h == p_headline
            present == /\ h # None
                       /\ SepPositions(h) # {}
                       /\ Strip(TextAfter(h, FirstSep(h))) # <<>>
        IN (p_result # None) <=> present

C6_Witness ==
    /\ p_pc = "done"
    /\ SepPositions(p_headline) # {}
    /\ Strip(TextAfter(p_headline, FirstSep(p_headline))) = <<>>
    /\ p_result = None

\* C7: with several separators in the headline the result is the whole
\* trimmed text after the first one, later separators included verbatim.
C7_FirstSplitOnly ==
    (p_pc = "done" /\ p_headline # None /\ SepPositions(p_headline) # {}) =>
        LET rest == Strip(TextAfter(p_headline, FirstSep(p_headline)))
        IN p_result = IF rest = <<>> THEN None ELSE rest

C7_Witness ==
    /\ p_pc = "done"
    /\ p_headline # None
    /\ Cardinality(SepPositions(p_headline)) >= 2
    /\ p_result # None
    /\ SepPositions(p_result) # {}

\* ------------------------------------------------ scroll convergence
\* the value a read is compared with: the read before it, 0 before the first
Prev(r, i) == IF i = 1 THEN 0 ELSE r[i - 1]

\* index of the last read that differs from the one before it, 0 when none
LastChange(r) ==
    LET ch == {i \in 1..Len(r) : r[i] # Prev(r, i)}
    IN IF ch = {} THEN 0 ELSE CHOOSE i \in ch : \A j \in ch : j <= i

\* three consecutive reads equal to the value read just before them
HasStableRun(r) ==
    \E i \in 1..(Len(r) - 2) : \A j \in i..(i + 2) : r[j] = Prev(r, i)

\* C1: load_all_connections returns only with stable_rounds = 3 and with
\* the last three extents read all equal to last_height, each of them
\* unchanged from the read before it.
C1_ReturnsOnlyWhenStable ==
    pc = "load_return" =>
        /\ stable_rounds = 3
        /\ Len(reads) >= 3
        /\ \A i \in (Len(reads) - 2)..Len(reads) :
              reads[i] = last_height /\ reads[i] = Prev(reads, i)

C1_Witness ==
    /\ pc = "load_return"
    /\ stable_rounds = 3
    /\ Len(reads) >= 5
    /\ reads[Len(reads) - 4] # reads[Len(reads) - 3]
    /\ reads[1] # reads[Len(reads)]

\* C2: the call makes exactly k + 3 rounds, k the index of the last read
\* that differs from its predecessor: it returns with k + 3 rounds made,
\* and it starts no round once k + 3 have been made; for the extents
\* 100, 250, 250, 250, 250 that is 5 rounds.
C2_RoundsAreLastChangePlus3 ==
    /\ pc = "load_return" =>
          rounds = LastChange(reads) + 3 /\ Len(reads) = rounds
    /\ pc = "scroll" => rounds < LastChange(reads) + 3
    /\ (pc = "load_return" /\ reads = <<100, 250, 250, 250, 250>>) => rounds = 5
    /\ (pc = "while" /\ reads = <<100, 250, 250, 250, 250>>) => stable_rounds = 3
    /\ (pc = "while" /\ reads = <<100, 250, 250, 250>>) => stable_rounds < 3

C2_Witness ==
    /\ pc = "load_return"
    /\ reads = <<100, 250, 250, 250, 250>>
    /\ rounds = 5

LaterSteps == {"scrape_connections", "save_connections", "context_close",
               "browser_close"}

\* C3: there is no iteration ceiling: as long as the reads hold no run of
\* three equal to the value before them, the loop test starts another round
\* whatever the number of rounds made, the call does not return, and no
\* later step of the pipeline is entered except through that return.
C3_NoCeiling ==
    /\ [](pc = "load_return" => HasStableRun(reads))
    /\ [][(pc = "while" /\ ~HasStableRun(reads)) => pc' = "scroll"]_vars
    /\ [][(pc' \in LaterSteps /\ pc \notin LaterSteps) => pc = "load_return"]_vars

C3_Witness ==
    /\ pc = "while"
    /\ Len(reads) = MaxRounds
    /\ rounds = MaxRounds
    /\ ~HasStableRun(reads)
    /\ cards = <<>>
    /\ file.mtime = 0

\* ------------------------------------------------------ card extraction
Named(c) == c.name # None /\ Strip(c.name) # <<>>

\* C4: every emitted Connection has a name that is non-empty after
\* trimming and is the trimmed name of a card that has one; cards whose
\* name node is missing, empty or blank leave no Connection.
C4_NamesNonEmpty ==
    \A i \in 1..Len(connections) :
        /\ connections[i].name # None
        /\ Strip(connections[i].name) # <<>>
        /\ \E j \in 1..Len(cards) :
              Named(cards[j]) /\ connections[i].name = Strip(cards[j].name)

C4_Witness ==
    /\ pc = "save_connections"
    /\ Len(connections) = 1
    /\ \E i, j \in 1..Len(cards) :
          /\ cards[i].name = None
          /\ cards[j].name = <<" ">>

TextOf(node) == IF node = None THEN <<>> ELSE Strip(node)

\* C5: the output is the subsequence of the cards that have a non-empty
\* trimmed name, one Connection per such card in the cards' order, and this
\* sequence is the one save_connections is given and writes.
C5_OutputIsKeptCardsInOrder ==
    LET kept == SelectSeq(cards, Named)
    IN /\ Len(connections) = Len(kept)
       /\ \A i \in 1..Len(kept) :
             /\ connections[i].name = Strip(kept[i].name)
             /\ connections[i].headline = TextOf(kept[i].headline)
       /\ (pc \in {"context_close", "browser_close"} \/ raised_at \in {"open", "json.dump"})
             => payload = connections
       /\ (file.mtime > 0 /\ file.complete) => file.data = connections

C5_Witness ==
    /\ pc = "context_close"
    /\ Len(cards) = 3
    /\ Named(cards[1])
    /\ ~Named(cards[2])
    /\ Named(cards[3])
    /\ Len(connections) = 2
    /\ connections[1].name = <<"x">>
    /\ connections[2].name = <<"y">>
    /\ payload = connections
    /\ file.data = connections

\* ------------------------------------------------------- orchestration
\* C8: on every exit of main after the browser was launched the browser
\* and its context are closed.
C8_SessionClosedOnExit ==
    (pc = "exited" /\ browser # "none") =>
        /\ browser = "closed"
        /\ context # "open"
        /\ playwright = "stopped"

C8_Witness ==
    /\ pc = "exited"
    /\ ret = "1"
    /\ raised_at = "json.dump"
    /\ browser = "closed"
    /\ context = "closed"

\* C9: no partial success: a run that fails leaves the output file neither
\* created nor modified, and a run that wrote the file wrote the whole
\* extracted sequence and ends with success.
C9_NoPartialSuccess ==
    pc = "exited" =>
        /\ ret \in {"1", "raised"} => file.mtime = 0
        /\ file.mtime > 0 =>
              file.complete /\ file.data = connections /\ ret = "0"

\* the kind of failure the orchestrator is said to report
FailureKind ==
    IF exc = "Timeout" /\ raised_at = "wait_for_url" THEN "LoginTimeout"
    ELSE IF exc = "Timeout" /\ raised_at = "wait_for_selector" THEN "NavigationTimeout"
    ELSE "Unexpected"

AllSteps == <<"login", "open_connections_page", "load_all_connections",
              "scrape_connections", "save_connections", "context.close",
              "browser.close">>

IsPrefix(a, b) == Len(a) <= Len(b) /\ a = SubSeq(b, 1, Len(a))

\* C11: main returns 0 exactly when login, navigation, scroll convergence,
\* extraction, persistence and the two closes all completed; a timeout or
\* other exception raised inside the session gives return 1; main raises
\* only when no session was ever created.
C11_ReturnCode ==
    pc = "exited" =>
        /\ ret = "0" <=> completed = AllSteps
        /\ exc \in {"Timeout", "Error"} => ret = "1"
        /\ playwright # "none" => ret \in {"0", "1"}
        /\ ret = "raised" => started = <<>> /\ raised_at = "ensure_credentials"

C11_Witness ==
    /\ pc = "exited"
    /\ ret = "1"
    /\ raised_at = "browser.close"
    /\ Len(completed) = 6

\* C12: the steps start at most once and in the order of the code, a step
\* starts only when every step started before it has completed, and once an
\* exception is in flight no step starts or completes any more.
C12_Linear ==
    /\ [](/\ IsPrefix(started, AllSteps)
          /\ IsPrefix(completed, started)
          /\ Len(started) <= Len(completed) + 1)
    /\ [][started' # started => completed = started]_vars
    /\ [][exc # "none" => (started' = started /\ completed' = completed)]_vars

C12_Witness ==
    /\ pc = "exited"
    /\ ret = "1"
    /\ started = SubSeq(AllSteps, 1, 3)
    /\ completed = SubSeq(AllSteps, 1, 2)

\* C13: with the username or the password missing or empty the run raises
\* in ensure_credentials: no Playwright, browser or context exists, no step
\* and no driver operation has happened and the file is untouched.
C13_FailFast ==
    (username \in {None, <<>>} \/ password \in {None, <<>>}) =>
        /\ pc \in {"start", "exited"}
        /\ playwright = "none"
        /\ browser = "none"
        /\ context = "none"
        /\ started = <<>>
        /\ ops = <<>>
        /\ file.mtime = 0
        /\ pc = "exited" => (ret = "raised" /\ exc = "ValueError")

C13_Witness ==
    /\ pc = "exited"
    /\ ret = "raised"
    /\ username = <<"u">>
    /\ password = <<>>

\* C14: a missing name or headline node is not fatal: a card with a name
\* and no headline node is emitted with the headline "" (never None) and
\* no employer, and every card that has a name is emitted whatever nodes
\* the cards around it lack.
C14_MissingNodesNotFatal ==
    LET kept == SelectSeq(cards, Named)
    IN /\ \A i \in 1..Len(connections) :
             connections[i].headline # None /\ connections[i].name # None
       /\ \A i \in 1..Len(kept) :
             /\ i <= Len(connections)
             /\ kept[i].headline = None =>
                   (connections[i].headline = <<>> /\ connections[i].employer = None)
       /\ \A j \in 1..Len(cards) :
             Named(cards[j]) =>
                 \E i \in 1..Len(connections) : connections[i].name = Strip(cards[j].name)

C14_Witness ==
    /\ pc = "save_connections"
    /\ Len(cards) = 3
    /\ cards[1].name = None
    /\ Named(cards[2])
    /\ cards[2].headline = None
    /\ Named(cards[3])
    /\ Len(connections) = 2
    /\ connections[1].headline = <<>>
    /\ connections[1].employer = None

\* index of the first read of the value the reads end with
FirstOfFinal(r) == IF LastChange(r) = 0 THEN 1 ELSE LastChange(r)

InLoop == pc \in {"while", "scroll", "pause", "read"}

\* C16: the call makes at most three rounds after the first read of the
\* value the extent ends with, and it does not hang: from every point of
\* the loop it returns (or raises) unless a read changes the extent again
\* (or the explored number of rounds is used up).
C16_TerminatesWhenStable ==
    /\ [](pc \in {"pause", "read", "while", "load_return"}
            => rounds <= FirstOfFinal(reads) + 3)
    /\ [](pc = "scroll" => rounds < FirstOfFinal(reads) + 3)
    /\ [](InLoop => <>(\/ ~InLoop
                       \/ (pc = "while" /\ rounds >= 1 /\ stable_rounds = 0)
                       \/ (pc = "while" /\ rounds = MaxRounds /\ stable_rounds < 3)))

C16_Witness ==
    /\ pc = "load_return"
    /\ FirstOfFinal(reads) >= 2
    /\ rounds = FirstOfFinal(reads) + 3

\* C17: after every completed round last_height is the extent read in that
\* round, stable_rounds is between 0 and 3 and counts the most recent
\* consecutive reads equal to their predecessor (0 before the first read),
\* and a read that differs from its predecessor sets stable_rounds to 0.
C17_LoopInvariant ==
    /\ [](pc \in {"while", "load_return"} =>
            /\ Len(reads) = rounds
            /\ rounds >= 1 => last_height = reads[rounds]
            /\ stable_rounds \in 0..3
            /\ stable_rounds = Len(reads) - LastChange(reads))
    /\ [][(pc = "read" /\ pc' = "while"
             /\ reads'[Len(reads')] # Prev(reads', Len(reads')))
           => stable_rounds' = 0]_vars

C17_Witness ==
    /\ pc = "while"
    /\ Len(reads) = 5
    /\ LastChange(reads) = 3
    /\ stable_rounds = 2
    /\ last_height = reads[5]

\* C18: three first reads of 0 make the call return after exactly 3
\* rounds; with a non-zero first read it makes at least 4; it never returns
\* after fewer than 3.
C18_ZeroStart ==
    /\ pc = "load_return" =>
          /\ rounds >= 3
          /\ Len(reads) >= 3
          /\ reads[1] # 0 => rounds >= 4
          /\ SubSeq(reads, 1, 3) = <<0, 0, 0>> => rounds = 3
    /\ (pc = "while" /\ reads = <<0, 0, 0>>) => stable_rounds = 3
    /\ pc \in {"scroll", "pause", "read"} =>
          (Len(reads) < 3 \/ SubSeq(reads, 1, 3) # <<0, 0, 0>>)

C18_Witness ==
    /\ pc = "load_return"
    /\ reads = <<0, 0, 0>>
    /\ rounds = 3

RoundOps == <<"scroll", "pause", "read">>

\* C19: the driver operations of a call are scroll, pause, read, repeated in
\* that order: one of each per round, and an extent is read and compared
\* only right after a scroll and then a pause.
C19_RoundOrder ==
    /\ [](\A i \in 1..Len(ops) : ops[i] = RoundOps[((i - 1) % 3) + 1])
    /\ [](pc \in {"while", "load_return"} =>
            (Len(ops) = 3 * rounds /\ Len(reads) = rounds))
    /\ [][(reads' # reads /\ reads' # <<>>) =>
            /\ Len(ops) >= 2
            /\ ops[Len(ops)] = "pause"
            /\ ops[Len(ops) - 1] = "scroll"
            /\ ops' = Append(ops, "read")]_vars

C19_Witness ==
    /\ pc = "while"
    /\ ops = <<"scroll", "pause", "read", "scroll", "pause", "read">>
    /\ Len(reads) = 2

====
